---- MODULE Spec2Model ----
(***************************************************************************)
(* Model of whisper_subtitle.tasks.scheduler.TaskScheduler, of             *)
(* core.engines.registry.EngineRegistry, of the transcribe methods of the  *)
(* registered engines and of tasks.youtube_fetcher.YouTubeFetcher.         *)
(*                                                                         *)
(* The scheduler runs on one asyncio event loop.  asyncio.Lock.acquire()   *)
(* does not suspend when the lock is free, and no holder of self._lock     *)
(* awaits while holding it, so every `async with self._lock` section runs  *)
(* to its end without interleaving.  A coroutine is therefore cut into     *)
(* atomic steps at its real suspension points only: the await of the       *)
(* task's work in _execute_task, the await of the cancelled loop in        *)
(* stop(), the sleep of the loop, and the gap between                      *)
(* asyncio.create_task(...) and the first step of the created coroutine.   *)
(*                                                                         *)
(* Time is counted in minutes.  Every stored datetime is kept as its       *)
(* offset from the current instant (datetime.now() reads as Now = 0, a     *)
(* negative offset lies in the past); Advance lets a minute pass by        *)
(* lowering every stored offset by one.  The two datetime.now() reads of   *)
(* one locked section are one instant.                                     *)
(*                                                                         *)
(* ScheduledTask objects have identity: schedule_task builds a new object  *)
(* and stores it under task_id, and an _execute_task coroutine created for *)
(* the object that was under that id before keeps working on that earlier  *)
(* object.  tasks[id] is the object now in self.tasks; an object that left *)
(* self.tasks (overwritten by schedule_task, deleted by cleanup_old_tasks) *)
(* is reachable only from its own coroutine, no operation reads its fields *)
(* again, and superseded counts the coroutines still working on such       *)
(* objects.  The fields name, args, kwargs, schedule_time, created_at and  *)
(* started_at are not kept: no operation modelled here reads them.         *)
(*                                                                         *)
(* Spec is the scheduler with tasks scheduled under one id, LiveSpec the   *)
(* started scheduler under fair scheduling, PairSpec two tasks side by     *)
(* side with fewer argument values, RetrySpec the scheduler with tasks     *)
(* due at once, LoopSpec the started loop with work that may never        *)
(* return, DailySpec schedule_daily_task alone, RegistrySpec the engine    *)
(* registry, EngineSpec one transcribe call of an engine, FetcherSpec the  *)
(* channel monitor on the scheduler, RouteSpec the same beside the API's   *)
(* task-cancel route, VideoSpec the download and transcription tasks of    *)
(* one video.                                                              *)
(***************************************************************************)
EXTENDS Integers, Sequences, FiniteSets, TLC

VARIABLES
    tasks,         \* TaskScheduler.tasks: task_id -> ScheduledTask, or NoTask
    running,       \* TaskScheduler.running
    stop_pc,       \* position of a stop() call: "idle" or "awaiting" the loop
    created,       \* ids whose task has an _execute_task coroutine created, not yet begun
    inflight,      \* id -> number of _execute_task coroutines awaiting the task's work
    superseded,    \* id -> coroutines of objects that left self.tasks: created / inflight
    invoked,       \* history: id -> invocations of the task's work since its last successful return
    cancelled_ok,  \* history: id -> cancel_task calls on the task that returned True, up to MaxCount
    last,          \* the most recent operation, its subject, argument and return value
    engines,       \* EngineRegistry._engines: name -> engine class, or NoEngine
    instances,     \* EngineRegistry._instances: name -> cached instance, or NoInstance
    constructed,   \* engine instances constructed so far: the identity of the next one
    channels,      \* YouTubeFetcher.channels: channel_id -> YouTubeChannel, or NoChannel
    processed_videos,  \* YouTubeFetcher.processed_videos
    adding,        \* channel ids of the add_channel calls awaiting their probe
    videos         \* video_id -> the VideoFetchResult its tasks were given, or NoVideo

registry_vars == <<engines, instances, constructed>>

fetcher_vars == <<channels, processed_videos, adding, videos>>

scheduler_state == <<tasks, running, stop_pc, created, inflight, superseded, invoked, cancelled_ok>>

vars == <<tasks, running, stop_pc, created, inflight, superseded, invoked, cancelled_ok, last,
          engines, instances, constructed, channels, processed_videos, adding, videos>>

(***************************************************************************)
(* Bounds                                                                  *)
(***************************************************************************)
MaxRetries == 3     \* largest max_retries argument tried
MaxAge == 2         \* completion times further in the past are indistinguishable
MaxSuperseded == 1  \* coroutines of superseded objects alive at once
MaxCount == 2       \* the history counter cancelled_ok stops counting here
MaxInstances == 3   \* engine instances constructed in one run of the registry
CheckInterval == 2  \* check_interval the YouTubeFetcher is built with, in minutes

TaskIds == {"a", "b"}              \* ids callers may name
ScheduledIds == {"a"}              \* ids Spec schedules tasks under
RetryArgs == 0..MaxRetries
OlderThans == 0..(MaxAge - 1)      \* older_than arguments, in minutes
ScheduleOffsets == {0, 1}          \* schedule_time - now; 0 is also the default

EngineNames == {"x", "y"}          \* engine names callers may name
ChannelIds == {"c1", "c2"}         \* channel ids callers may name
VideoIds == {"v1", "v2"}           \* video ids the channels' listings may hold

\* the task ids YouTubeFetcher builds: f"youtube_check_{channel_id}",
\* f"download_{video.video_id}", f"transcribe_{video.video_id}"
CheckTaskId(channel_id) == "youtube_check_" \o channel_id

DownloadTaskId(video_id) == "download_" \o video_id

TranscribeTaskId(video_id) == "transcribe_" \o video_id

FetcherTaskIds ==
    {CheckTaskId(c) : c \in ChannelIds}
        \cup {DownloadTaskId(v) : v \in VideoIds}
        \cup {TranscribeTaskId(v) : v \in VideoIds}

\* every key self.tasks may hold in the run at hand: the ids callers name,
\* or the ids the fetcher builds
AllTaskIds == DOMAIN tasks

(***************************************************************************)
(* Values of the program                                                   *)
(***************************************************************************)
NoInterval == -1    \* interval = None
NoTime == 100000    \* a datetime field holding None
NoError == "None"
NoResult == "None"
Now == 0            \* datetime.now(), as an offset from the current instant
Minute == 1         \* timedelta(minutes=1)
MinutesPerHour == 60
HoursPerDay == 24
MinutesPerDay == 1440

Intervals == {NoInterval, 0, 1}    \* None, timedelta(0), one minute

TerminalStatuses == {"completed", "failed", "cancelled"}

NoTask == [status |-> "absent"]

RECURSIVE Pow2(_)
Pow2(n) == IF n = 0 THEN 1 ELSE 2 * Pow2(n - 1)

Max(a, b) == IF a >= b THEN a ELSE b

Min(a, b) == IF a <= b THEN a ELSE b

\* `if task.interval:` -- None and timedelta(0) are both falsy
Truthy(interval) == interval # NoInterval /\ interval # 0

ScheduledTask(schedule_time, interval, max_retries) ==
    [interval |-> interval, max_retries |-> max_retries, retry_count |-> 0,
     status |-> "pending", completed_at |-> NoTime, result |-> NoResult,
     error |-> NoError, next_run |-> schedule_time]

Op(op, id, arg, at, ret) == [op |-> op, id |-> id, arg |-> arg, at |-> at, ret |-> ret]

\* operations no property observes leave no record
Quiet == Op("none", "", 0, 0, FALSE)

NoCoroutines == [created |-> 0, inflight |-> 0]

\* EngineRegistry: a name _engines does not hold, a name _instances does not hold
NoEngine == "unregistered"
NoInstance == [serial |-> 0]

\* YouTubeFetcher: a channel_id self.channels does not hold
NoChannel == [channel_name |-> "absent"]

\* a video id no VideoFetchResult was built for
NoVideo == [title |-> "absent"]

\* the state after construction, the task ids of the run being ids
InitOver(ids) ==
    /\ tasks = [id \in ids |-> NoTask]
    /\ running = FALSE
    /\ stop_pc = "idle"
    /\ created = {}
    /\ inflight = [id \in ids |-> 0]
    /\ superseded = [id \in ids |-> NoCoroutines]
    /\ invoked = [id \in ids |-> 0]
    /\ cancelled_ok = [id \in ids |-> 0]
    /\ last = Quiet
    /\ engines = [name \in EngineNames |-> NoEngine]
    /\ instances = [name \in EngineNames |-> NoInstance]
    /\ constructed = 0
    /\ channels = [channel_id \in ChannelIds |-> NoChannel]
    /\ processed_videos = {}
    /\ adding = {}
    /\ videos = [video_id \in VideoIds |-> NoVideo]

Init == InitOver(TaskIds)

(***************************************************************************)
(* start / stop                                                            *)
(***************************************************************************)
Start ==
    /\ ~running
    /\ running' = TRUE
    /\ last' = Quiet
    /\ UNCHANGED <<tasks, stop_pc, created, inflight, superseded, invoked, cancelled_ok>>
    /\ UNCHANGED <<registry_vars, fetcher_vars>>

\* stop() up to `await self._scheduler_task`: the loop is cancelled.  A stop()
\* called while running is False returns at once and changes nothing; one
\* stop() call at a time is followed through its await.
StopBegin ==
    /\ running
    /\ stop_pc = "idle"
    /\ running' = FALSE
    /\ stop_pc' = "awaiting"
    /\ last' = Quiet
    /\ UNCHANGED <<tasks, created, inflight, superseded, invoked, cancelled_ok>>
    /\ UNCHANGED <<registry_vars, fetcher_vars>>

StopMark(t) ==
    IF t.status = "running"
    THEN [t EXCEPT !.status = "cancelled", !.error = "Scheduler stopped",
                   !.completed_at = Now]
    ELSE t

\* stop() after the await: every RUNNING task of self.tasks is marked
StopFinish ==
    /\ stop_pc = "awaiting"
    /\ stop_pc' = "idle"
    /\ tasks' = [id \in AllTaskIds |-> StopMark(tasks[id])]
    /\ last' = Quiet
    /\ UNCHANGED <<running, created, inflight, superseded, invoked, cancelled_ok>>
    /\ UNCHANGED <<registry_vars, fetcher_vars>>

(***************************************************************************)
(* Objects leaving self.tasks                                              *)
(***************************************************************************)
CanBegin(t) == t.status = "pending"

\* the coroutines of tasks[id], as they go on once the object has left the map:
\* a created one will invoke the work if it finds the object PENDING
Leaving(id) ==
    [created |-> IF id \in created /\ CanBegin(tasks[id]) THEN 1 ELSE 0,
     inflight |-> inflight[id]]

Plus(c, d) == [created |-> c.created + d.created, inflight |-> c.inflight + d.inflight]

Alive(c) == c.created + c.inflight

(***************************************************************************)
(* schedule_task / schedule_recurring_task                                 *)
(***************************************************************************)
ScheduleTask(task_id, schedule_time, interval, max_retries, record) ==
    /\ Alive(Plus(superseded[task_id], Leaving(task_id))) <= MaxSuperseded
    /\ tasks' = [tasks EXCEPT ![task_id] = ScheduledTask(schedule_time, interval, max_retries)]
    /\ superseded' = [superseded EXCEPT ![task_id] = Plus(@, Leaving(task_id))]
    /\ created' = created \ {task_id}
    /\ inflight' = [inflight EXCEPT ![task_id] = 0]
    /\ invoked' = [invoked EXCEPT ![task_id] = 0]
    /\ cancelled_ok' = [cancelled_ok EXCEPT ![task_id] = 0]
    /\ last' = record
    /\ UNCHANGED <<running, stop_pc>>

Schedule ==
    \E task_id \in ScheduledIds, off \in ScheduleOffsets,
       interval \in Intervals, max_retries \in RetryArgs :
        /\ ScheduleTask(task_id, Now + off, interval, max_retries,
                        Op("schedule", task_id, 0, 0, TRUE))
        /\ UNCHANGED <<registry_vars, fetcher_vars>>

(***************************************************************************)
(* cancel_task                                                             *)
(***************************************************************************)
\* CancelMark without `task.status = TaskStatus.CANCELLED`
CancelMarkKeepingStatus(t) ==
    [t EXCEPT !.error = "Cancelled by user", !.completed_at = Now]

CancelMark(t) ==
    [t EXCEPT !.status = "cancelled", !.error = "Cancelled by user", !.completed_at = Now]

\* cancel_task, leaving in last the record its caller gives for each outcome
CancelTaskRecorded(task_id, record_false, record_true) ==
    IF tasks[task_id] = NoTask \/ tasks[task_id].status \in TerminalStatuses
    THEN /\ last' = record_false
         /\ UNCHANGED <<tasks, running, stop_pc, created, inflight, superseded,
                        invoked, cancelled_ok>>
    ELSE /\ tasks' = [tasks EXCEPT ![task_id] = CancelMark(@)]
         /\ cancelled_ok' = [cancelled_ok EXCEPT ![task_id] = Min(@ + 1, MaxCount)]
         /\ last' = record_true
         /\ UNCHANGED <<running, stop_pc, created, inflight, superseded, invoked>>

CancelTask(task_id) ==
    CancelTaskRecorded(task_id, Op("cancel", task_id, 0, 0, FALSE),
                                Op("cancel", task_id, 0, 0, TRUE))

Cancel ==
    \E task_id \in TaskIds :
        /\ CancelTask(task_id)
        /\ UNCHANGED <<registry_vars, fetcher_vars>>

(***************************************************************************)
(* cleanup_old_tasks                                                       *)
(***************************************************************************)
\* Removable without the test of the status
RemovableWhateverStatus(t, cutoff_time) ==
    /\ t.completed_at # NoTime
    /\ t.completed_at < cutoff_time

Removable(t, cutoff_time) ==
    /\ t.status \in TerminalStatuses
    /\ t.completed_at # NoTime
    /\ t.completed_at < cutoff_time

TasksToRemove(older_than) ==
    {id \in AllTaskIds : tasks[id] # NoTask /\ Removable(tasks[id], Now - older_than)}

CleanupOldTasks(older_than) ==
    LET gone == TasksToRemove(older_than) IN
    /\ \A id \in gone : Alive(Plus(superseded[id], Leaving(id))) <= MaxSuperseded
    /\ tasks' = [id \in AllTaskIds |-> IF id \in gone THEN NoTask ELSE tasks[id]]
    /\ superseded' = [id \in AllTaskIds |->
                        IF id \in gone THEN Plus(superseded[id], Leaving(id))
                        ELSE superseded[id]]
    /\ created' = created \ gone
    /\ inflight' = [id \in AllTaskIds |-> IF id \in gone THEN 0 ELSE inflight[id]]
    /\ invoked' = [id \in AllTaskIds |-> IF id \in gone THEN 0 ELSE invoked[id]]
    /\ cancelled_ok' = [id \in AllTaskIds |-> IF id \in gone THEN 0 ELSE cancelled_ok[id]]
    /\ last' = Op("cleanup", "", older_than, 0, gone # {})
    /\ UNCHANGED <<running, stop_pc>>

Cleanup ==
    \E older_than \in OlderThans :
        /\ CleanupOldTasks(older_than)
        /\ UNCHANGED <<registry_vars, fetcher_vars>>

(***************************************************************************)
(* _scheduler_loop / _process_pending_tasks                                *)
(***************************************************************************)
\* IsDue without `task.next_run <= now`
IsDueWhateverNextRun(t) == t.status = "pending" /\ t.next_run # NoTime

IsDue(t) == t.status = "pending" /\ t.next_run # NoTime /\ t.next_run <= Now

TasksToRun == {id \in AllTaskIds : tasks[id] # NoTask /\ IsDue(tasks[id])}

NoneCreated == created = {} /\ \A id \in AllTaskIds : superseded[id].created = 0

\* ProcessPendingTasks by a loop that awaits the executions it started
\* before its next pass
ProcessPendingTasksAfterWork ==
    /\ running
    /\ NoneCreated
    /\ \A id \in AllTaskIds : inflight[id] = 0
    /\ created' = TasksToRun
    /\ last' = Quiet
    /\ UNCHANGED <<tasks, running, stop_pc, inflight, superseded, invoked, cancelled_ok>>
    /\ UNCHANGED <<registry_vars, fetcher_vars>>

\* One pass of the loop.  The coroutines created by a pass sit in the event
\* loop's FIFO ready queue ahead of the loop's own wake-up from sleep(1), so
\* the next pass runs only after each of them has taken its first step.
ProcessPendingTasks ==
    /\ running
    /\ NoneCreated
    /\ created' = TasksToRun
    /\ last' = Quiet
    /\ UNCHANGED <<tasks, running, stop_pc, inflight, superseded, invoked, cancelled_ok>>
    /\ UNCHANGED <<registry_vars, fetcher_vars>>

(***************************************************************************)
(* _execute_task                                                           *)
(***************************************************************************)
\* MarkRunning without `task.status = TaskStatus.RUNNING`
MarkRunningForgotten(t) == t

MarkRunning(t) == [t EXCEPT !.status = "running"]

\* first locked section: the task is claimed and its work invoked
ExecuteBegin(id) ==
    /\ id \in created
    /\ CanBegin(tasks[id])
    /\ created' = created \ {id}
    /\ tasks' = [tasks EXCEPT ![id] = MarkRunning(@)]
    /\ inflight' = [inflight EXCEPT ![id] = @ + 1]
    /\ invoked' = [invoked EXCEPT ![id] = @ + 1]
    /\ last' = Op("begin", id, 0, 0, TRUE)
    /\ UNCHANGED <<running, stop_pc, superseded, cancelled_ok>>
    /\ UNCHANGED <<registry_vars, fetcher_vars>>

\* first locked section: `return  # Task was cancelled or already running`
ExecuteSkip(id) ==
    /\ id \in created
    /\ ~CanBegin(tasks[id])
    /\ created' = created \ {id}
    /\ last' = Quiet
    /\ UNCHANGED <<tasks, running, stop_pc, inflight, superseded, invoked, cancelled_ok>>
    /\ UNCHANGED <<registry_vars, fetcher_vars>>

\* OnSuccess without `task.retry_count = 0`
OnSuccessKeepingRetryCount(t) ==
    LET done == [t EXCEPT !.status = "completed", !.result = "result",
                          !.completed_at = Now]
    IN  IF Truthy(t.interval)
        THEN [done EXCEPT !.next_run = Now + t.interval, !.status = "pending"]
        ELSE done

OnSuccess(t) ==
    LET done == [t EXCEPT !.status = "completed", !.result = "result",
                          !.completed_at = Now]
    IN  IF Truthy(t.interval)
        THEN [done EXCEPT !.next_run = Now + t.interval, !.status = "pending",
                          !.retry_count = 0]
        ELSE done

RetriesRemain(retry_count, max_retries) == retry_count < max_retries

\* OnFailure without `task.status = TaskStatus.PENDING` on the retry branch
OnFailureLeftRunning(t) ==
    LET counted == [t EXCEPT !.retry_count = @ + 1, !.error = "exception"]
    IN  IF RetriesRemain(counted.retry_count, counted.max_retries)
        THEN [counted EXCEPT !.next_run = Now + Pow2(counted.retry_count) * Minute]
        ELSE [counted EXCEPT !.status = "failed", !.completed_at = Now]

\* OnFailure with the delay computed before `task.retry_count += 1`
OnFailureDelayBeforeCount(t) ==
    LET counted == [t EXCEPT !.retry_count = @ + 1, !.error = "exception"]
    IN  IF RetriesRemain(counted.retry_count, counted.max_retries)
        THEN [counted EXCEPT !.next_run = Now + Pow2(t.retry_count) * Minute,
                             !.status = "pending"]
        ELSE [counted EXCEPT !.status = "failed", !.completed_at = Now]

OnFailure(t) ==
    LET counted == [t EXCEPT !.retry_count = @ + 1, !.error = "exception"]
    IN  IF RetriesRemain(counted.retry_count, counted.max_retries)
        THEN [counted EXCEPT !.next_run = Now + Pow2(counted.retry_count) * Minute,
                             !.status = "pending"]
        ELSE [counted EXCEPT !.status = "failed", !.completed_at = Now]

\* the work returned: locked section of lines 276-285
WorkReturns(id) ==
    /\ inflight[id] > 0
    /\ tasks' = [tasks EXCEPT ![id] = OnSuccess(@)]
    /\ inflight' = [inflight EXCEPT ![id] = @ - 1]
    /\ invoked' = [invoked EXCEPT ![id] = 0]
    /\ last' = Op("success", id, 0, 0, TRUE)
    /\ UNCHANGED <<running, stop_pc, created, superseded, cancelled_ok>>
    /\ UNCHANGED <<registry_vars, fetcher_vars>>

\* the work raised: locked section of lines 293-307
WorkRaises(id) ==
    /\ inflight[id] > 0
    /\ tasks' = [tasks EXCEPT ![id] = OnFailure(@)]
    /\ inflight' = [inflight EXCEPT ![id] = @ - 1]
    /\ last' = Op("failure", id, 0, 0, FALSE)
    /\ UNCHANGED <<running, stop_pc, created, superseded, invoked, cancelled_ok>>
    /\ UNCHANGED <<registry_vars, fetcher_vars>>

\* a coroutine of a superseded object takes its first step: the object was
\* PENDING when it left the map and nothing has touched it since
SupersededBegin(id) ==
    /\ superseded[id].created > 0
    /\ superseded' = [superseded EXCEPT ![id] =
                        [created |-> @.created - 1, inflight |-> @.inflight + 1]]
    /\ last' = Quiet
    /\ UNCHANGED <<tasks, running, stop_pc, created, inflight, invoked, cancelled_ok>>
    /\ UNCHANGED <<registry_vars, fetcher_vars>>

\* the work of a superseded object returned or raised; the outcome is written
\* to an object nothing else refers to
SupersededEnd(id) ==
    /\ superseded[id].inflight > 0
    /\ superseded' = [superseded EXCEPT ![id].inflight = @ - 1]
    /\ last' = Quiet
    /\ UNCHANGED <<tasks, running, stop_pc, created, inflight, invoked, cancelled_ok>>
    /\ UNCHANGED <<registry_vars, fetcher_vars>>

(***************************************************************************)
(* The clock                                                               *)
(***************************************************************************)
\* a completion time after one more minute; times MaxAge or more in the past
\* compare alike with every cutoff, older_than being drawn below MaxAge
Aged(time) == IF time = NoTime THEN NoTime ELSE Max(time - Minute, 0 - MaxAge)

\* a next_run after one more minute; the code only asks next_run <= now, so a
\* next_run that is due stays at Now
AgedDue(time) == IF time = NoTime THEN NoTime ELSE Max(time - Minute, Now)

AgedTask(t) ==
    IF t = NoTask THEN t
    ELSE [t EXCEPT !.completed_at = Aged(@), !.next_run = AgedDue(@)]

AgedChannel(c) ==
    IF c = NoChannel THEN c
    ELSE [c EXCEPT !.last_check = Aged(@)]

Advance ==
    /\ tasks' = [id \in AllTaskIds |-> AgedTask(tasks[id])]
    /\ channels' = [channel_id \in ChannelIds |-> AgedChannel(channels[channel_id])]
    /\ last' = Quiet
    /\ UNCHANGED <<registry_vars, processed_videos, adding, videos>>
    /\ UNCHANGED <<running, stop_pc, created, inflight, superseded, invoked, cancelled_ok>>

Next ==
    \/ Start
    \/ StopBegin
    \/ StopFinish
    \/ Schedule
    \/ Cancel
    \/ Cleanup
    \/ ProcessPendingTasks
    \/ \E id \in TaskIds : ExecuteBegin(id)
    \/ \E id \in TaskIds : ExecuteSkip(id)
    \/ \E id \in TaskIds : WorkReturns(id)
    \/ \E id \in TaskIds : WorkRaises(id)
    \/ \E id \in TaskIds : SupersededBegin(id)
    \/ \E id \in TaskIds : SupersededEnd(id)
    \/ Advance

Spec == Init /\ [][Next]_vars

(***************************************************************************)
(* The scheduler left running: start() once, stop() never.  The event loop *)
(* runs every ready coroutine, the dispatch loop wakes from each sleep,    *)
(* every invocation of a task's work ends, and time passes.                *)
(***************************************************************************)
LiveNext ==
    \/ Start
    \/ Schedule
    \/ Cancel
    \/ Cleanup
    \/ ProcessPendingTasks
    \/ \E id \in TaskIds : ExecuteBegin(id)
    \/ \E id \in TaskIds : ExecuteSkip(id)
    \/ \E id \in TaskIds : WorkReturns(id)
    \/ \E id \in TaskIds : WorkRaises(id)
    \/ \E id \in TaskIds : SupersededBegin(id)
    \/ \E id \in TaskIds : SupersededEnd(id)
    \/ Advance

Fairness ==
    /\ WF_vars(Start)
    /\ WF_vars(ProcessPendingTasks)
    /\ WF_vars(Advance)
    /\ \A id \in TaskIds :
        /\ WF_vars(ExecuteBegin(id))
        /\ WF_vars(ExecuteSkip(id))
        /\ WF_vars(WorkReturns(id) \/ WorkRaises(id))
        /\ WF_vars(SupersededBegin(id))
        /\ WF_vars(SupersededEnd(id))

LiveSpec == Init /\ [][LiveNext]_vars /\ Fairness

(***************************************************************************)
(* schedule_daily_task                                                     *)
(***************************************************************************)
\* now.replace(hour, minute, second=0, microsecond=0), plus a day when that is
\* not after now; returned as an offset from now.  now is given by its minute
\* of the day: dropping its seconds leaves `next_run <= now` as it is, the
\* replaced time being a whole minute.
\* DailyNextRun with `next_run < now` for `next_run <= now`
DailyNextRunStrict(now_minute, hour, minute) ==
    LET next_run == hour * MinutesPerHour + minute
    IN  IF next_run < now_minute
        THEN next_run + MinutesPerDay - now_minute
        ELSE next_run - now_minute

DailyNextRun(now_minute, hour, minute) ==
    LET next_run == hour * MinutesPerHour + minute
    IN  IF next_run <= now_minute
        THEN next_run + MinutesPerDay - now_minute
        ELSE next_run - now_minute

ScheduleDailyTask(task_id, hour, minute, max_retries, now_minute) ==
    ScheduleTask(task_id, Now + DailyNextRun(now_minute, hour, minute),
                 MinutesPerDay, max_retries,
                 Op("daily", task_id, hour * MinutesPerHour + minute, now_minute, TRUE))

Hours == 0..(HoursPerDay - 1)
MinuteArgs == {0, 1, 29, 30, 59}       \* minute arguments and clock minutes tried
DefaultRetries == 3

\* the daily task is registered once, as api/main.py does at startup, at
\* any time of the day
ScheduleDaily ==
    \E task_id \in ScheduledIds, hour \in Hours, minute \in MinuteArgs,
       now_hour \in Hours, now_min \in MinuteArgs :
        /\ tasks[task_id] = NoTask
        /\ ScheduleDailyTask(task_id, hour, minute, DefaultRetries,
                             now_hour * MinutesPerHour + now_min)
        /\ UNCHANGED <<registry_vars, fetcher_vars>>

DailyNext == ScheduleDaily

DailySpec == Init /\ [][DailyNext]_vars

(***************************************************************************)
(* Two tasks side by side: each id is scheduled while absent from the map, *)
(* with the default schedule_time, one attempt, one-shot or recurring.     *)
(***************************************************************************)
PairSchedule ==
    \E task_id \in TaskIds, interval \in {NoInterval, 1} :
        /\ tasks[task_id] = NoTask
        /\ ScheduleTask(task_id, Now, interval, 1, Op("schedule", task_id, 0, 0, TRUE))
        /\ UNCHANGED <<registry_vars, fetcher_vars>>

PairNext ==
    \/ Start
    \/ PairSchedule
    \/ Cancel
    \/ Cleanup
    \/ ProcessPendingTasks
    \/ \E id \in TaskIds : ExecuteBegin(id)
    \/ \E id \in TaskIds : ExecuteSkip(id)
    \/ \E id \in TaskIds : WorkReturns(id)
    \/ \E id \in TaskIds : WorkRaises(id)
    \/ \E id \in TaskIds : SupersededEnd(id)
    \/ Advance

PairSpec == Init /\ [][PairNext]_vars

(***************************************************************************)
(* The whole scheduler with fewer arguments: tasks are scheduled with the  *)
(* default schedule_time, one-shot or every minute, with one attempt or    *)
(* with the most retries.                                                  *)
(***************************************************************************)
RetrySchedule ==
    \E task_id \in ScheduledIds, interval \in {NoInterval, 1}, max_retries \in {1, MaxRetries} :
        /\ ScheduleTask(task_id, Now, interval, max_retries,
                        Op("schedule", task_id, 0, 0, TRUE))
        /\ UNCHANGED <<registry_vars, fetcher_vars>>

RetryNext ==
    \/ Start
    \/ StopBegin
    \/ StopFinish
    \/ RetrySchedule
    \/ Cancel
    \/ Cleanup
    \/ ProcessPendingTasks
    \/ \E id \in TaskIds : ExecuteBegin(id)
    \/ \E id \in TaskIds : ExecuteSkip(id)
    \/ \E id \in TaskIds : WorkReturns(id)
    \/ \E id \in TaskIds : WorkRaises(id)
    \/ \E id \in TaskIds : SupersededBegin(id)
    \/ \E id \in TaskIds : SupersededEnd(id)
    \/ Advance

RetrySpec == Init /\ [][RetryNext]_vars

(***************************************************************************)
(* The loop beside executions that may never end: the scheduler is started *)
(* and not stopped, two tasks are scheduled, the loop wakes from each      *)
(* sleep and every created coroutine takes its first step, while nothing   *)
(* is assumed of the tasks' work: an invocation may return, raise or stay  *)
(* awaited for ever.                                                       *)
(***************************************************************************)
LoopRetries == 2    \* max_retries of the tasks scheduled beside the loop

LoopSchedule ==
    \E task_id \in TaskIds, interval \in {NoInterval, 1} :
        /\ tasks[task_id] = NoTask
        /\ ScheduleTask(task_id, Now, interval, LoopRetries,
                        Op("schedule", task_id, 0, 0, TRUE))
        /\ UNCHANGED <<registry_vars, fetcher_vars>>

LoopNext ==
    \/ Start
    \/ LoopSchedule
    \/ Cancel
    \/ ProcessPendingTasks
    \/ \E id \in TaskIds : ExecuteBegin(id)
    \/ \E id \in TaskIds : ExecuteSkip(id)
    \/ \E id \in TaskIds : WorkReturns(id)
    \/ \E id \in TaskIds : WorkRaises(id)
    \/ Advance

LoopFairness ==
    /\ WF_vars(Start)
    /\ WF_vars(ProcessPendingTasks)
    /\ \A id \in TaskIds :
        /\ WF_vars(ExecuteBegin(id))
        /\ WF_vars(ExecuteSkip(id))

LoopSpec == Init /\ [][LoopNext]_vars /\ LoopFairness

(***************************************************************************)
(* EngineRegistry: register and get_engine.  Both are plain methods with   *)
(* no suspension point; each call is one step.  An instance is known by    *)
(* the class that built it, the config it was built with and its identity  *)
(* (the count of instances constructed when it was made).                  *)
(***************************************************************************)
EngineClasses == {"F", "G", "Throwing"}    \* subclasses of BaseEngine
NotAnEngine == "NotAnEngine"               \* a class that is no subclass of BaseEngine
NoConfig == "None"                         \* config = None
Configs == {NoConfig, "empty", "c"}        \* None, {}, a dict with entries

IsSubclassOfBaseEngine(engine_class) == engine_class \in EngineClasses

\* `self._engines[name] = engine_class`
Register(name, engine_class) ==
    /\ IsSubclassOfBaseEngine(engine_class)
    /\ engines' = [engines EXCEPT ![name] = engine_class]
    /\ last' = Op("register", name, engine_class, 0, TRUE)
    /\ UNCHANGED <<instances, constructed, scheduler_state, fetcher_vars>>

\* `raise ValueError(...)`
RegisterRejects(name, engine_class) ==
    /\ ~IsSubclassOfBaseEngine(engine_class)
    /\ last' = Op("register", name, engine_class, 0, FALSE)
    /\ UNCHANGED <<registry_vars, scheduler_state, fetcher_vars>>

\* `config or {}`: None and {} both give {}
ConfigOrEmpty(config) == IF config \in {NoConfig, "empty"} THEN "empty" ELSE config

\* the constructor of the class Throwing raises, the others return
ConstructorRaises(engine_class, config) == engine_class = "Throwing"

Instance(engine_class, config, serial) ==
    [engine_class |-> engine_class, config |-> ConfigOrEmpty(config), serial |-> serial]

\* Cached without `and config is None`
CachedWhateverConfig(name, config) == instances[name] # NoInstance

\* `name in self._instances and config is None`
Cached(name, config) == instances[name] # NoInstance /\ config = NoConfig

\* OnConstructorError dropping the cached instance of the name
OnConstructorErrorDroppingCache(name) == [instances EXCEPT ![name] = NoInstance]

\* the except branch of get_engine: self._instances as it was
OnConstructorError(name) == instances

\* `return None` for a name _engines does not hold; the return value is in ret
GetEngineNotFound(name, config) ==
    /\ engines[name] = NoEngine
    /\ last' = Op("get_engine", name, config, "not found", NoInstance)
    /\ UNCHANGED <<registry_vars, scheduler_state, fetcher_vars>>

\* `return self._instances[name]`
GetEngineCached(name, config) ==
    /\ engines[name] # NoEngine
    /\ Cached(name, config)
    /\ last' = Op("get_engine", name, config, "cached", instances[name])
    /\ UNCHANGED <<registry_vars, scheduler_state, fetcher_vars>>

\* the constructor is called and returns
GetEngineConstructs(name, config) ==
    /\ engines[name] # NoEngine
    /\ ~Cached(name, config)
    /\ ~ConstructorRaises(engines[name], config)
    /\ constructed < MaxInstances
    /\ LET instance == Instance(engines[name], config, constructed + 1)
       IN  /\ instances' = [instances EXCEPT ![name] = instance]
           /\ last' = Op("get_engine", name, config, "constructed", instance)
    /\ constructed' = constructed + 1
    /\ UNCHANGED <<engines, scheduler_state, fetcher_vars>>

\* the constructor is called and raises: `return None`
GetEngineFails(name, config) ==
    /\ engines[name] # NoEngine
    /\ ~Cached(name, config)
    /\ ConstructorRaises(engines[name], config)
    /\ instances' = OnConstructorError(name)
    /\ last' = Op("get_engine", name, config, "raised", NoInstance)
    /\ UNCHANGED <<engines, constructed, scheduler_state, fetcher_vars>>

GetEngine(name, config) ==
    \/ GetEngineNotFound(name, config)
    \/ GetEngineCached(name, config)
    \/ GetEngineConstructs(name, config)
    \/ GetEngineFails(name, config)

RegistryNext ==
    \/ \E name \in EngineNames, engine_class \in EngineClasses : Register(name, engine_class)
    \/ \E name \in EngineNames : RegisterRejects(name, NotAnEngine)
    \/ \E name \in EngineNames, config \in Configs : GetEngine(name, config)

RegistrySpec == Init /\ [][RegistryNext]_vars

(***************************************************************************)
(* transcribe of the engines core/engines/__init__.py registers.  Each is  *)
(* one try block whose statements run in order until one of them raises;   *)
(* the handler turns the exception into a TranscriptionResult.  A call is  *)
(* given by whether the input file exists, whether the engine's library    *)
(* (the whisper module, the faster_whisper module, the whisperkit-cli      *)
(* binary) is installed, how the library's transcription ends and the      *)
(* output format asked for.                                                *)
(***************************************************************************)
RegisteredEngines == {"openai_whisper", "faster_whisper", "whisperkit"}

\* how the underlying call ends: it returns, it raises (a non-zero return
\* code for the CLI), and for the CLI it may run into the timeout or leave
\* no JSON file
LibraryOutcomes(engine) ==
    IF engine = "whisperkit" THEN {"returns", "raises", "times out", "no output"}
    ELSE {"returns", "raises"}

OutputFormats == {"srt", "vtt", "txt", "json"}

\* BaseEngine._format_output raises ValueError for any other format
SupportedFormats == {"srt", "vtt", "txt"}

TranscribeCalls ==
    [file_exists : BOOLEAN, installed : BOOLEAN,
     library : {"returns", "raises", "times out", "no output"}, output_format : OutputFormats]

NoSegments == "None"    \* segments = None

\* `except Exception`: success=False, error=str(e), segments left at None
FailedResult(error) == [success |-> FALSE, error |-> error, segments |-> NoSegments]

SucceededResult == [success |-> TRUE, error |-> NoError, segments |-> "segments"]

\* after the library returned: `self._format_output(...)`, then the result
Formatted(call) ==
    IF call.output_format \in SupportedFormats THEN SucceededResult
    ELSE FailedResult("Unsupported output format")

\* OpenAIWhisperEngine.transcribe: _load_whisper() is the first statement
OpenAIWhisperTranscribe(call) ==
    IF ~call.installed THEN FailedResult("No module named 'whisper'")
    ELSE IF ~call.file_exists THEN FailedResult("Input file not found")
    ELSE IF call.library = "raises" THEN FailedResult("library error")
    ELSE Formatted(call)

\* FasterWhisperEngine.transcribe: the file is checked, then the model loaded
FasterWhisperTranscribe(call) ==
    IF ~call.file_exists THEN FailedResult("Input file not found")
    ELSE IF ~call.installed THEN FailedResult("No module named 'faster_whisper'")
    ELSE IF call.library = "raises" THEN FailedResult("library error")
    ELSE Formatted(call)

\* WhisperKitEngine.transcribe: the file is checked, then the CLI is run
WhisperKitTranscribe(call) ==
    IF ~call.file_exists THEN FailedResult("Input file not found")
    ELSE IF ~call.installed THEN FailedResult("No such file or directory: 'whisperkit-cli'")
    ELSE IF call.library = "times out" THEN FailedResult("WhisperKit transcription timed out")
    ELSE IF call.library = "raises" THEN FailedResult("WhisperKit CLI failed")
    ELSE IF call.library = "no output" THEN FailedResult("WhisperKit JSON output not found")
    ELSE Formatted(call)

EngineTranscribe(engine, call) ==
    IF engine = "openai_whisper" THEN OpenAIWhisperTranscribe(call)
    ELSE IF engine = "faster_whisper" THEN FasterWhisperTranscribe(call)
    ELSE WhisperKitTranscribe(call)

Transcribe(engine, call) ==
    /\ call.library \in LibraryOutcomes(engine)
    /\ last' = Op("engine_transcribe", engine, call, 0, EngineTranscribe(engine, call))
    /\ UNCHANGED <<registry_vars, scheduler_state, fetcher_vars>>

EngineNext == \E engine \in RegisteredEngines, call \in TranscribeCalls : Transcribe(engine, call)

EngineSpec == Init /\ [][EngineNext]_vars

(***************************************************************************)
(* YouTubeFetcher on the started scheduler.  add_channel suspends once, at *)
(* the await of its probe (run in a thread pool); remove_channel and       *)
(* enable_channel never suspend.  _check_channel_for_new_videos calls      *)
(* VideoDownloader.get_playlist_info with the keyword max_videos, which    *)
(* get_playlist_info(self, url) does not declare: the call raises          *)
(* TypeError before anything is awaited, the handler of lines 257-259      *)
(* returns [], and the whole check, with the two locked sections of        *)
(* _execute_task around it when the scheduler runs it, is one step.        *)
(***************************************************************************)
ChannelName == "Test"
TranscribeDelay == 5    \* timedelta(minutes=5)

YouTubeChannel(channel_name) ==
    [channel_name |-> channel_name, last_check |-> NoTime, enabled |-> TRUE]

Registered(channel_id) == channels[channel_id] # NoChannel

\* add_channel up to `await self.video_downloader.get_video_info(channel_url)`;
\* one add_channel call per channel id is followed through its await
AddChannelBegin(channel_id) ==
    /\ channel_id \notin adding
    /\ adding' = adding \cup {channel_id}
    /\ last' = Quiet
    /\ UNCHANGED <<channels, processed_videos, videos, scheduler_state, registry_vars>>

\* AfterProbeFailure with the channel stored before the probe was awaited
AfterProbeFailureChannelKept(channel_id) ==
    [channels EXCEPT ![channel_id] = YouTubeChannel(ChannelName)]

\* self.channels when the probe raised: the probe is the first statement of
\* the try block, the handler stores nothing
AfterProbeFailure(channel_id) == channels

\* the probe raised: `return False`
AddChannelFails(channel_id) ==
    /\ channel_id \in adding
    /\ adding' = adding \ {channel_id}
    /\ channels' = AfterProbeFailure(channel_id)
    /\ last' = Op("add_channel", channel_id, 0, 0, FALSE)
    /\ UNCHANGED <<processed_videos, videos, scheduler_state, registry_vars>>

\* the probe returned: the channel is stored and its check task scheduled
AddChannelCommit(channel_id) ==
    /\ channel_id \in adding
    /\ adding' = adding \ {channel_id}
    /\ channels' = [channels EXCEPT ![channel_id] = YouTubeChannel(ChannelName)]
    /\ ScheduleTask(CheckTaskId(channel_id), Now, CheckInterval * Minute, DefaultRetries,
                    Op("add_channel", channel_id, 0, 0, TRUE))
    /\ UNCHANGED <<processed_videos, videos, registry_vars>>

\* RemoveFromChannels leaving the entry in place
RemoveFromChannelsForgotten(channel_id) == channels

\* `del self.channels[channel_id]`
RemoveFromChannels(channel_id) == [channels EXCEPT ![channel_id] = NoChannel]

RemoveChannel(channel_id) ==
    IF ~Registered(channel_id)
    THEN /\ last' = Op("remove_channel", channel_id, 0, 0, FALSE)
         /\ UNCHANGED <<fetcher_vars, scheduler_state, registry_vars>>
    ELSE /\ CancelTaskRecorded(CheckTaskId(channel_id),
                               Op("remove_channel", channel_id, 0, 0, TRUE),
                               Op("remove_channel", channel_id, 0, 0, TRUE))
         /\ channels' = RemoveFromChannels(channel_id)
         /\ UNCHANGED <<processed_videos, adding, videos, registry_vars>>

\* SetEnabled setting the flag of every channel
SetEnabledOfAll(channel_id, enabled) ==
    [c \in ChannelIds |->
        IF channels[c] = NoChannel THEN NoChannel
        ELSE [channels[c] EXCEPT !.enabled = enabled]]

\* `self.channels[channel_id].enabled = enabled`
SetEnabled(channel_id, enabled) == [channels EXCEPT ![channel_id].enabled = enabled]

EnableChannel(channel_id, enabled) ==
    IF ~Registered(channel_id)
    THEN /\ last' = Op("enable_channel", channel_id, enabled, 0, FALSE)
         /\ UNCHANGED <<fetcher_vars, scheduler_state, registry_vars>>
    ELSE /\ channels' = SetEnabled(channel_id, enabled)
         /\ last' = Op("enable_channel", channel_id, enabled, 0, TRUE)
         /\ UNCHANGED <<processed_videos, adding, videos, scheduler_state, registry_vars>>

(***************************************************************************)
(* _check_channel_for_new_videos and check_all_channels                    *)
(***************************************************************************)
\* the entries a listing may hold: v1 carries no upload_date, every other
\* video one that lies before now
UploadDate(video_id) == IF video_id = "v1" THEN NoTime ELSE 0 - 1

Entries == {[id |-> v, upload_date |-> UploadDate(v)] : v \in VideoIds}

Listings == SUBSET Entries         \* what the channel's page may list

\* the parameters get_playlist_info declares besides self, and the keywords
\* the check passes besides the positional url
PlaylistInfoParameters == {"url"}
CheckCallKeywords == {"max_videos"}

\* a call with a keyword the callee does not declare raises TypeError
CallRaises(keywords, parameters) == ~(keywords \subseteq parameters)

\* get_playlist_info returns a list, on which `.get('entries', [])` raises
PlaylistInfoIsDict == FALSE

\* the check gets as far as the loop over the listing
ReadsListing(channel_id) ==
    /\ Registered(channel_id)
    /\ channels[channel_id].enabled
    /\ ~CallRaises(CheckCallKeywords, PlaylistInfoParameters)
    /\ PlaylistInfoIsDict

\* lines 216-233: the entry is neither processed nor older than the last check
IsNewVideo(channel, entry) ==
    /\ entry.id \notin processed_videos
    /\ ~(/\ channel.last_check # NoTime
         /\ entry.upload_date # NoTime
         /\ entry.upload_date <= channel.last_check)

\* the ids of new_videos, the list the check returns; [] on every early
\* return and from the handler of lines 257-259
NewVideos(channel_id, entries) ==
    IF ReadsListing(channel_id)
    THEN {e.id : e \in {e \in entries : IsNewVideo(channels[channel_id], e)}}
    ELSE {}

\* _schedule_video_processing for each new video: a download task due now
\* and a transcription task due five minutes later
TasksAfterCheck(new) ==
    [id \in AllTaskIds |->
        IF \E v \in new : id = DownloadTaskId(v)
        THEN ScheduledTask(Now, NoInterval, DefaultRetries)
        ELSE IF \E v \in new : id = TranscribeTaskId(v)
        THEN ScheduledTask(Now + TranscribeDelay * Minute, NoInterval, DefaultRetries)
        ELSE tasks[id]]

\* `channel.last_check = datetime.now()` for the channels whose check got there
ChannelsAfterCheck(reached) ==
    [c \in ChannelIds |->
        IF c \in reached THEN [channels[c] EXCEPT !.last_check = Now] ELSE channels[c]]

Offered(entries) == {e.id : e \in entries}

NoFile == "None"    \* file_path = None

\* the VideoFetchResult of lines 236-242: downloaded, transcribed, file_path
\* and error at their defaults
VideoFetchResult ==
    [title |-> "Unknown", downloaded |-> FALSE, transcribed |-> FALSE,
     file_path |-> NoFile, error |-> NoError]

\* the VideoFetchResult objects handed to the tasks of the new videos
VideosAfterCheck(new) ==
    [v \in VideoIds |-> IF v \in new THEN VideoFetchResult ELSE videos[v]]

\* the scheduler runs the check task of a channel: first locked section of
\* _execute_task, the check, and the locked section of lines 276-285
ExecuteCheck(channel_id, entries) ==
    LET id == CheckTaskId(channel_id)
        new == NewVideos(channel_id, entries)
        reached == {c \in {channel_id} : ReadsListing(c)}
    IN  /\ id \in created
        /\ CanBegin(tasks[id])
        /\ created' = created \ {id}
        /\ tasks' = [TasksAfterCheck(new) EXCEPT ![id] = OnSuccess(MarkRunning(tasks[id]))]
        /\ invoked' = [invoked EXCEPT ![id] = 0]
        /\ processed_videos' = processed_videos \cup new
        /\ channels' = ChannelsAfterCheck(reached)
        /\ videos' = VideosAfterCheck(new)
        /\ last' = Op("check", channel_id, Offered(entries), 0, new)
        /\ UNCHANGED <<running, stop_pc, inflight, superseded, cancelled_ok, adding,
                       registry_vars>>

\* the coroutine of a check task that schedule_task has replaced runs: the
\* same step on an object that has left self.tasks
SupersededCheck(channel_id, entries) ==
    LET id == CheckTaskId(channel_id)
        new == NewVideos(channel_id, entries)
        reached == {c \in {channel_id} : ReadsListing(c)}
    IN  /\ superseded[id].created > 0
        /\ superseded' = [superseded EXCEPT ![id].created = @ - 1]
        /\ tasks' = TasksAfterCheck(new)
        /\ processed_videos' = processed_videos \cup new
        /\ channels' = ChannelsAfterCheck(reached)
        /\ videos' = VideosAfterCheck(new)
        /\ last' = Op("check", channel_id, Offered(entries), 0, new)
        /\ UNCHANGED <<running, stop_pc, created, inflight, invoked, cancelled_ok, adding,
                       registry_vars>>

\* the keys of the map check_all_channels returns: `if videos:
\* results[channel_id] = videos`.  The handler of lines 176-178 never runs,
\* the check catching every Exception itself.
ResultKeys(listing) ==
    {c \in ChannelIds : Registered(c) /\ NewVideos(c, listing[c]) # {}}

\* check_all_channels: the check of every channel of self.channels, one
\* after the other, none of them suspending; the keys of the returned map
\* are in at
CheckAllChannels(listing) ==
    LET new == UNION {NewVideos(c, listing[c]) : c \in ChannelIds}
        reached == {c \in ChannelIds : ReadsListing(c)}
        offered == UNION {Offered(listing[c]) : c \in {c \in ChannelIds : Registered(c)}}
    IN  /\ tasks' = TasksAfterCheck(new)
        /\ processed_videos' = processed_videos \cup new
        /\ channels' = ChannelsAfterCheck(reached)
        /\ videos' = VideosAfterCheck(new)
        /\ last' = Op("check_all", "", offered, ResultKeys(listing), new)
        /\ UNCHANGED <<running, stop_pc, created, inflight, superseded, invoked,
                       cancelled_ok, adding, registry_vars>>

FetcherNext ==
    \/ Start
    \/ \E channel_id \in ChannelIds : AddChannelBegin(channel_id)
    \/ \E channel_id \in ChannelIds : AddChannelFails(channel_id)
    \/ \E channel_id \in ChannelIds : AddChannelCommit(channel_id)
    \/ \E channel_id \in ChannelIds : RemoveChannel(channel_id)
    \/ \E channel_id \in ChannelIds, enabled \in BOOLEAN : EnableChannel(channel_id, enabled)
    \/ \E listing \in [ChannelIds -> Listings] : CheckAllChannels(listing)
    \/ ProcessPendingTasks
    \/ \E channel_id \in ChannelIds, entries \in Listings : ExecuteCheck(channel_id, entries)
    \/ \E channel_id \in ChannelIds, entries \in Listings : SupersededCheck(channel_id, entries)
    \/ \E id \in FetcherTaskIds : ExecuteSkip(id)
    \/ Cleanup
    \/ Advance

FetcherInit == InitOver(FetcherTaskIds)

FetcherSpec == FetcherInit /\ [][FetcherNext]_vars

(***************************************************************************)
(* The fetcher beside the task-cancel route of the API, which hands any    *)
(* task id a client names to TaskScheduler.cancel_task.                    *)
(***************************************************************************)
\* DELETE /youtube/tasks/{task_id}
CancelYoutubeTask(task_id) ==
    /\ CancelTask(task_id)
    /\ UNCHANGED <<registry_vars, fetcher_vars>>

RouteNext ==
    \/ Start
    \/ \E channel_id \in ChannelIds : AddChannelBegin(channel_id)
    \/ \E channel_id \in ChannelIds : AddChannelFails(channel_id)
    \/ \E channel_id \in ChannelIds : AddChannelCommit(channel_id)
    \/ \E channel_id \in ChannelIds : RemoveChannel(channel_id)
    \/ \E channel_id \in ChannelIds, enabled \in BOOLEAN : EnableChannel(channel_id, enabled)
    \/ \E channel_id \in ChannelIds : CancelYoutubeTask(CheckTaskId(channel_id))
    \/ ProcessPendingTasks
    \/ \E channel_id \in ChannelIds : ExecuteCheck(channel_id, Entries)
    \/ \E channel_id \in ChannelIds : SupersededCheck(channel_id, Entries)
    \/ \E id \in FetcherTaskIds : ExecuteSkip(id)
    \/ Cleanup
    \/ Advance

RouteSpec == FetcherInit /\ [][RouteNext]_vars

(***************************************************************************)
(* The tasks of one video.  _schedule_video_processing is the only caller  *)
(* of schedule_task for them and the check is its only caller; the check   *)
(* never gets that far, so the method is called here as the check would    *)
(* call it, for a video that is not in processed_videos, on a channel of   *)
(* self.channels.  _download_video suspends at the await of download_video *)
(* and returns in one step with the commit of _execute_task;               *)
(* _transcribe_video returns at line 346 without awaiting anything, so the *)
(* execution of a transcription task is one step.                          *)
(***************************************************************************)
\* lines 268-290: both tasks are scheduled and the id is marked processed
ScheduleVideoProcessing(channel_id, video_id) ==
    /\ Registered(channel_id)
    /\ video_id \notin processed_videos
    /\ tasks' = TasksAfterCheck({video_id})
    /\ processed_videos' = processed_videos \cup {video_id}
    /\ videos' = VideosAfterCheck({video_id})
    /\ last' = Op("schedule_video", video_id, channel_id, 0, TRUE)
    /\ UNCHANGED <<running, stop_pc, created, inflight, superseded, invoked, cancelled_ok,
                   channels, adding, registry_vars>>

\* VideoDownloader.download_video returns the Path of the file or raises
\* RuntimeError
DownloaderOutcomes == {"path", "raises"}

\* `result['success']` on the pathlib.Path download_video returned raises
\* TypeError
PathIsSubscriptable == FALSE

\* the try block of _download_video gets to `return True`
DownloadSucceeds(outcome) == outcome = "path" /\ PathIsSubscriptable

\* the VideoFetchResult as _download_video leaves it
AfterDownload(video, outcome) ==
    IF DownloadSucceeds(outcome)
    THEN [video EXCEPT !.downloaded = TRUE, !.file_path = "path"]
    ELSE [video EXCEPT !.error = IF outcome = "path" THEN "not subscriptable"
                                 ELSE "Video download failed"]

\* the bool a task function returned, as task.result holds it
ReturnValue(ok) == IF ok THEN "True" ELSE "False"

\* _download_video returned: its value is committed by lines 276-285 of
\* _execute_task; the handler of lines 326-330 has turned every exception
\* into `return False`
DownloadReturns(video_id, outcome) ==
    LET id == DownloadTaskId(video_id)
    IN  /\ inflight[id] > 0
        /\ videos' = [videos EXCEPT ![video_id] = AfterDownload(@, outcome)]
        /\ tasks' = [tasks EXCEPT ![id] =
                        [OnSuccess(@) EXCEPT !.result = ReturnValue(DownloadSucceeds(outcome))]]
        /\ inflight' = [inflight EXCEPT ![id] = @ - 1]
        /\ invoked' = [invoked EXCEPT ![id] = 0]
        /\ last' = Op("download", video_id, outcome, 0, DownloadSucceeds(outcome))
        /\ UNCHANGED <<running, stop_pc, created, superseded, cancelled_ok,
                       channels, processed_videos, adding, registry_vars>>

\* `not video.downloaded or not video.file_path` is false
Transcribable(video) == video.downloaded /\ video.file_path # NoFile

\* the scheduler runs the transcription task of a video that is not
\* downloaded: first locked section, `return False` of line 346 with no
\* engine called, and the commit of lines 276-285.  No video is ever
\* downloaded (DownloadSucceeds), so the lines after 346 are not reached.
ExecuteTranscribe(video_id) ==
    LET id == TranscribeTaskId(video_id)
    IN  /\ id \in created
        /\ CanBegin(tasks[id])
        /\ ~Transcribable(videos[video_id])
        /\ created' = created \ {id}
        /\ tasks' = [tasks EXCEPT ![id] =
                        [OnSuccess(MarkRunning(@)) EXCEPT !.result = ReturnValue(FALSE)]]
        /\ invoked' = [invoked EXCEPT ![id] = 0]
        /\ last' = Op("transcribe", video_id, 0, "not downloaded", FALSE)
        /\ UNCHANGED <<running, stop_pc, inflight, superseded, cancelled_ok, fetcher_vars,
                       registry_vars>>

VideoChannelIds == {"c1"}      \* the channel the videos belong to

VideoNext ==
    \/ Start
    \/ \E channel_id \in VideoChannelIds : AddChannelBegin(channel_id)
    \/ \E channel_id \in VideoChannelIds : AddChannelCommit(channel_id)
    \/ \E channel_id \in VideoChannelIds, video_id \in VideoIds :
            ScheduleVideoProcessing(channel_id, video_id)
    \/ ProcessPendingTasks
    \/ \E channel_id \in VideoChannelIds : ExecuteCheck(channel_id, {})
    \/ \E channel_id \in VideoChannelIds : SupersededCheck(channel_id, {})
    \/ \E video_id \in VideoIds : ExecuteBegin(DownloadTaskId(video_id))
    \/ \E video_id \in VideoIds, outcome \in DownloaderOutcomes :
            DownloadReturns(video_id, outcome)
    \/ \E video_id \in VideoIds : ExecuteTranscribe(video_id)
    \/ Advance

VideoSpec == FetcherInit /\ [][VideoNext]_vars

(***************************************************************************)
(* Properties                                                              *)
(***************************************************************************)
Known(id) == tasks[id] # NoTask

\* no invocation of the task's work has returned: result is written by every
\* successful return and by nothing else
NeverSucceeded(id) == tasks[id].result = NoResult

\* C1: a task scheduled with max_retries = n whose work fails on every
\* invocation becomes failed after exactly n+1 invocations of the work.
C1_FailedAfterNPlusOneInvocations ==
    \A id \in TaskIds :
        (Known(id) /\ tasks[id].status = "failed" /\ NeverSucceeded(id))
            => invoked[id] = tasks[id].max_retries + 1

\* C2: a one-shot task whose work throws on every invocation ends failed with
\* retry_count equal to max_retries, completed_at set and error holding the
\* exception message.
C2_FailedOneShotRetryCount ==
    \A id \in TaskIds :
        (Known(id) /\ tasks[id].interval = NoInterval
                   /\ tasks[id].status = "failed" /\ NeverSucceeded(id))
            => /\ tasks[id].retry_count = tasks[id].max_retries
               /\ tasks[id].completed_at # NoTime
               /\ tasks[id].error = "exception"

Rearmed(t) ==
    /\ t.status = "pending"
    /\ t.completed_at # NoTime
    /\ t.next_run = t.completed_at + t.interval
    /\ t.retry_count = 0

C4_CancelReturnsTrueOnce ==
    \A id \in TaskIds : cancelled_ok[id] <= 1

\* C5: once cancel_task has returned True for a task, its status is cancelled
\* in every later state.
C5_CancelledIsAbsorbing ==
    \A id \in TaskIds : cancelled_ok[id] >= 1 => tasks[id].status = "cancelled"

\* C6: after cancel_task has returned True for a task, no execution of its
\* work starts.
C6_NoExecutionAfterCancel ==
    last.op = "begin" => cancelled_ok[last.id] = 0

\* C7 as claimed: the executions registered under one task id never overlap,
\* schedule_task calls included.
C7_OneExecutionPerId ==
    \A id \in TaskIds : inflight[id] + superseded[id].inflight <= 1

\* C7 as amended: each ScheduledTask object has at most one execution in
\* flight, and it is pending (armed for a next run) only when none is.
C7_OneExecutionPerTask ==
    \A id \in TaskIds :
        /\ inflight[id] <= 1
        /\ (Known(id) /\ tasks[id].status = "pending") => inflight[id] = 0

\* a recurring task that has returned once is executing again
C7_Witness ==
    \E id \in TaskIds :
        /\ Known(id)
        /\ tasks[id].status = "running"
        /\ tasks[id].result # NoResult
        /\ inflight[id] = 1

\* C8: cleanup_old_tasks(older_than) removes exactly the tasks that are
\* completed, failed or cancelled with completed_at before now - older_than;
\* pending and running tasks stay whatever their age, and every task that
\* stays is unchanged.
C8_CleanupRemovesExactlyOldTerminal ==
    [][last'.op = "cleanup" =>
        \A id \in TaskIds :
            /\ (Known(id) /\ tasks[id].status \in {"pending", "running"})
                    => tasks'[id] = tasks[id]
            /\ (Known(id) /\ tasks[id].status \in {"completed", "failed", "cancelled"})
                    => tasks'[id] = IF tasks[id].completed_at < Now - last'.arg
                                    THEN NoTask ELSE tasks[id]
            /\ ~Known(id) => tasks'[id] = NoTask
     ]_vars

\* a cleanup has just removed a task and kept a pending one that completed a
\* run at least as long ago
C8_Witness ==
    /\ last.op = "cleanup"
    /\ last.ret
    /\ \E id \in TaskIds :
        /\ Known(id)
        /\ tasks[id].status = "pending"
        /\ tasks[id].completed_at = 0 - MaxAge

C10_DailyFirstRun ==
    last.op = "daily" =>
        LET t == tasks[last.id]
            today == last.arg - last.at
        IN  /\ t.status = "pending"
            /\ t.interval = 24 * MinutesPerHour
            /\ t.next_run = IF today > 0 THEN today ELSE today + 24 * MinutesPerHour
            /\ t.next_run > Now

\* 02:00 requested at 03:00 is run 23 hours later
C10_Witness ==
    /\ last.op = "daily"
    /\ last.arg = 2 * MinutesPerHour
    /\ last.at = 3 * MinutesPerHour
    /\ tasks[last.id].next_run = 23 * MinutesPerHour

\* the step is a schedule_task call that put a new object under id
Replaced(id) == last'.op \in {"schedule", "daily"} /\ last'.id = id

\* C11: every failure raises retry_count by exactly one and, when retries
\* remain, returns the task to pending with next_run = failure time +
\* 2^retry_count minutes; no other step delays by the backoff, and
\* retry_count goes back to 0 only when a recurring task returns
\* successfully, never for a one-shot task.
C11_BackoffOnlyOnFailure ==
    [][\A id \in TaskIds :
        (/\ ~(tasks'[id] = tasks[id] /\ last'.op # "failure")
         /\ ~Replaced(id)
         /\ Known(id)
         /\ tasks'[id] # NoTask) =>
            LET t == tasks[id]
                u == tasks'[id]
                failed == last'.op = "failure" /\ last'.id = id
                returned == last'.op = "success" /\ last'.id = id
            IN  /\ failed =>
                    /\ u.retry_count = t.retry_count + 1
                    /\ u.retry_count < u.max_retries =>
                            /\ u.status = "pending"
                            /\ u.next_run = Now + Pow2(u.retry_count) * Minute
                /\ ~failed =>
                    \/ u.retry_count = t.retry_count
                    \/ returned /\ t.interval # NoInterval /\ u.retry_count = 0
                /\ t.interval = NoInterval => u.retry_count >= t.retry_count
                /\ (returned /\ u.status = "pending") => u.next_run = Now + t.interval
     ]_vars

\* a task has failed for the second time and waits four minutes
C11_Witness ==
    /\ last.op = "failure"
    /\ tasks[last.id].status = "pending"
    /\ tasks[last.id].retry_count = 2
    /\ tasks[last.id].next_run = Now + 4 * Minute

\* C12: in every reachable state no task has both a result and an error set,
\* a task that failed and then succeeded on a retry and a recurring task
\* across its runs included.
C12_ResultErrorExclusive ==
    \A id \in TaskIds :
        Known(id) => ~(tasks[id].result # NoResult /\ tasks[id].error # NoError)

\* C13: get_engine of a name that was never registered returns None and
\* leaves the factory map and the instance cache as they were, and so does a
\* get_engine whose constructor call raises.
C13_NoneForUnknownOrThrowing ==
    [][last'.op = "get_engine" =>
        LET name == last'.id
            config == last'.arg
            constructs == ~(instances[name] # NoInstance /\ config = NoConfig)
        IN  (\/ engines[name] = NoEngine
             \/ constructs /\ ConstructorRaises(engines[name], config))
                => /\ last'.ret = NoInstance
                   /\ engines' = engines
                   /\ instances' = instances
     ]_vars

\* the constructor raised for a name whose cache holds an earlier instance
C13_Witness ==
    /\ last.op = "get_engine"
    /\ last.at = "raised"
    /\ last.ret = NoInstance
    /\ engines[last.id] = "Throwing"
    /\ instances[last.id] # NoInstance

\* C14: for a registered name, a lookup without config returns the cached
\* instance when there is one; a lookup with a config constructs an instance
\* no earlier call returned, caches it in place of the former one, and
\* nothing but such a construction changes what the cache holds, so later
\* lookups without config return it.
C14_CachedUnlessConfigGiven ==
    [][/\ (last'.op = "get_engine" /\ engines[last'.id] # NoEngine) =>
            LET name == last'.id
                config == last'.arg
                cached == instances[name]
            IN  /\ (config = NoConfig /\ cached # NoInstance) =>
                        /\ last'.ret = cached
                        /\ instances' = instances
                /\ (config # NoConfig /\ ~ConstructorRaises(engines[name], config)) =>
                        /\ last'.ret # NoInstance
                        /\ last'.ret.serial > constructed
                        /\ last'.ret.engine_class = engines[name]
                        /\ last'.ret.config = ConfigOrEmpty(config)
                        /\ instances'[name] = last'.ret
       /\ \A name \in EngineNames :
            instances'[name] # instances[name] =>
                /\ last'.op = "get_engine"
                /\ last'.id = name
                /\ last'.ret = instances'[name]
                /\ last'.ret.serial > constructed
     ]_vars

\* a lookup without config returns the instance a lookup with a config put
\* in place of the first one
C14_Witness ==
    /\ last.op = "get_engine"
    /\ last.arg = NoConfig
    /\ last.at = "cached"
    /\ last.ret.config = "c"
    /\ last.ret.serial = 2

\* C15: every get_engine of a name returns an instance built by the class
\* registered last under that name, never one built by a class registered
\* before.
C15_LastRegisteredBuilds ==
    (last.op = "get_engine" /\ last.ret # NoInstance)
        => last.ret.engine_class = engines[last.id]

\* C17: a check of an enabled registered channel whose listing holds items
\* not seen before returns those items, schedules for each of them one
\* download task due at once and one transcription task due five minutes
\* later, adds their ids to the processed set and sets the channel's
\* last_check.
C17_CheckSchedulesNewVideos ==
    [][(last'.op = "check" /\ Registered(last'.id) /\ channels[last'.id].enabled) =>
        LET unseen == last'.arg \ processed_videos
        IN  /\ last'.ret = unseen
            /\ \A v \in unseen :
                    /\ tasks'[DownloadTaskId(v)] # NoTask
                    /\ tasks'[DownloadTaskId(v)].status = "pending"
                    /\ tasks'[DownloadTaskId(v)].next_run = Now
                    /\ tasks'[TranscribeTaskId(v)] # NoTask
                    /\ tasks'[TranscribeTaskId(v)].status = "pending"
                    /\ tasks'[TranscribeTaskId(v)].next_run = Now + TranscribeDelay * Minute
            /\ processed_videos' = processed_videos \cup unseen
            /\ channels'[last'.id].last_check = Now
     ]_vars

\* C18: an add_channel whose probe fails returns False, and neither its
\* step up to the probe nor its return changes the channel map, the
\* processed set or the task map.
C18_FailedAddChangesNothing ==
    [][(\/ last'.op = "add_channel" /\ ~last'.ret
        \/ last'.op # "add_channel" /\ adding' # adding)
        => /\ channels' = channels
           /\ processed_videos' = processed_videos
           /\ tasks' = tasks
     ]_vars

\* an add_channel of an unknown channel has failed beside a registered one
C18_Witness ==
    /\ last.op = "add_channel"
    /\ ~last.ret
    /\ ~Registered(last.id)
    /\ tasks[CheckTaskId(last.id)] = NoTask
    /\ \E c \in ChannelIds : Registered(c) /\ tasks[CheckTaskId(c)] # NoTask

C20_EnableChangesOnlyTheFlag ==
    [][last'.op = "enable_channel" =>
        /\ last'.ret = Registered(last'.id)
        /\ channels' = IF Registered(last'.id)
                       THEN [channels EXCEPT ![last'.id].enabled = last'.arg]
                       ELSE channels
        /\ tasks' = tasks
        /\ processed_videos' = processed_videos
        /\ created' = created
     ]_vars

\* a channel has been disabled beside an enabled one, its check task pending
C20_Witness ==
    /\ last.op = "enable_channel"
    /\ last.ret
    /\ ~channels[last.id].enabled
    /\ tasks[CheckTaskId(last.id)].status = "pending"
    /\ \E c \in ChannelIds : c # last.id /\ Registered(c) /\ channels[c].enabled

\* C21: check_all_channels checks every registered channel, an error in the
\* check of one channel neither stops the checks of the others nor leaves
\* check_all_channels, and the map it returns has an entry for every channel
\* it checked.
C21_SweepReportsEveryChannel ==
    last.op = "check_all" => \A c \in ChannelIds : Registered(c) => c \in last.at

\* C22: a download task whose download fails, the downloader reporting
\* failure or raising, is a failed execution for the scheduler: the error is
\* on the task, retry_count is raised, the task is retried or ends failed,
\* and it is never left completed.
C22_FailedDownloadIsFailedExecution ==
    (last.op = "download" /\ ~last.ret) =>
        LET t == tasks[DownloadTaskId(last.id)]
        IN  /\ t.status \in {"pending", "failed"}
            /\ t.error # NoError
            /\ t.retry_count >= 1

\* C23: a transcription task executed for a video whose download has not
\* succeeded calls no engine, leaves the transcribed flag false and ends as
\* a failure, not as a completed transcription.
C23_UndownloadedTranscriptionFails ==
    (last.op = "transcribe" /\ ~Transcribable(videos[last.id])) =>
        /\ last.at = "not downloaded"
        /\ ~videos[last.id].transcribed
        /\ tasks[TranscribeTaskId(last.id)].status # "completed"

MentionsNotFound(error) ==
    error \in {"Input file not found", "WhisperKit JSON output not found"}

\* C24: transcribe of every registered engine, given the path of a file that
\* does not exist, checks the file before anything else and returns a result
\* with success false, an error that mentions "not found" and no segments;
\* every other failure of the underlying call is returned as a failed result
\* too, none escapes as an exception.
C24_MissingFileReported ==
    last.op = "engine_transcribe" =>
        /\ ~last.arg.file_exists =>
                /\ ~last.ret.success
                /\ MentionsNotFound(last.ret.error)
                /\ last.ret.segments = NoSegments
        /\ last.ret.success =>
                /\ last.arg.file_exists
                /\ last.arg.installed
                /\ last.arg.library = "returns"

\* the item was uploaded before the channel was last checked
UploadedBefore(video_id, last_check) ==
    /\ last_check # NoTime
    /\ UploadDate(video_id) # NoTime
    /\ UploadDate(video_id) < last_check

\* C25: a check of an enabled registered channel drops exactly the items
\* that are in the processed set or were uploaded before the channel's
\* last_check: every other item offered, one with no readable upload date
\* included, is returned as new and has its tasks scheduled.
C25_CheckFiltersExactly ==
    [][(last'.op = "check" /\ Registered(last'.id) /\ channels[last'.id].enabled) =>
        LET kept == {v \in last'.arg :
                        /\ v \notin processed_videos
                        /\ ~UploadedBefore(v, channels[last'.id].last_check)}
        IN  /\ last'.ret = kept
            /\ \A v \in kept :
                    /\ tasks'[DownloadTaskId(v)] # NoTask
                    /\ tasks'[TranscribeTaskId(v)] # NoTask
     ]_vars

\* C26: the work of a task is invoked only for a task that is pending and
\* whose next_run has come, under every interleaving of the loop's passes,
\* the executions and the callers: a task re-armed after a success or
\* delayed after a failure is not executed before its new next_run.
C26_ExecutionOnlyWhenDue ==
    [][last'.op = "begin" =>
        /\ tasks[last'.id].status = "pending"
        /\ tasks[last'.id].next_run <= Now
     ]_vars

\* a task that failed once and was delayed is executing again
C26_Witness ==
    /\ last.op = "begin"
    /\ tasks[last.id].status = "running"
    /\ tasks[last.id].retry_count = 1
    /\ tasks[last.id].error = "exception"

C28_RetryCountBounded ==
    \A id \in TaskIds : Known(id) => tasks[id].retry_count <= tasks[id].max_retries

\* C29: every channel of the channel map has its recurring check task
\* youtube_check_<channel_id> in the scheduler, pending or running, after
\* any sequence of add_channel, remove_channel, enable_channel, checks,
\* cancel_task calls made through the task-cancel route and
\* cleanup_old_tasks.
C29_RegisteredChannelIsPolled ==
    \A c \in ChannelIds :
        Registered(c) =>
            /\ tasks[CheckTaskId(c)] # NoTask
            /\ tasks[CheckTaskId(c)].status \in {"pending", "running"}
====
